---- MODULE Spec2Model ----
(***************************************************************************)
(* Model of the tool-invocation bridge: the Tool Host of src/index.js (one *)
(* capability, "echo") and the Bridge Service of src/backend.js (the HTTP  *)
(* handlers /api/tools, /api/tools/call, /api/chat and the process-wide    *)
(* connection to the Tool Host).                                           *)
(*                                                                         *)
(* JavaScript values are tagged records: [t |-> "undefined"],              *)
(* [t |-> "null"], [t |-> "string", v |-> s], [t |-> "object", ...] and    *)
(* [t |-> "array", v |-> <<...>>].  A handler is a coroutine: an action    *)
(* runs it from one suspension point (await) to the next.  The LLM backend *)
(* and the transport are external: their answers are drawn from bounded    *)
(* sets.                                                                   *)
(***************************************************************************)
EXTENDS Integers, Sequences, FiniteSets

VARIABLES listening, alive, mcpClient, mcpTransport, clients, req, env, calc

vars == <<listening, alive, mcpClient, mcpTransport, clients, req, env, calc>>

(* ---------------------------- bounds ----------------------------------- *)

\* Number of request slots (handler activations that can exist at once).
MaxReq == 2

\* Longest tool_calls list the LLM backend returns in the data-rich runs.
MaxTools == 2

Slots == 1..MaxReq

(* ------------------------- JavaScript values --------------------------- *)

Undefined == [t |-> "undefined"]

Null == [t |-> "null"]

Str(s) == [t |-> "string", v |-> s]

Arr(q) == [t |-> "array", v |-> q]

\* An argument mapping with at most the field `message`; an absent field
\* reads as undefined, as a property access does.
Obj(m) == [t |-> "object", message |-> m]

\* Mutant of Truthy: the empty string is taken as truthy (?? instead of ||).
TruthyNullish(v) == v.t \notin {"undefined", "null"}

\* JavaScript truthiness (the operand test of || and of if).
Truthy(v) == /\ v.t \notin {"undefined", "null"}
             /\ ~(v.t = "string" /\ v.v = "")

\* a || b
OrElse(a, b) == IF Truthy(a) THEN a ELSE b

\* String(v), the conversion a template literal applies.
StringOf(v) ==
  CASE v.t = "string" -> v.v
    [] v.t = "undefined" -> "undefined"
    [] v.t = "null" -> "null"
    [] v.t = "object" -> "[object Object]"
    [] OTHER -> ""

\* Outcome of a step that either returns a value or throws.
Ok(x) == [ok |-> TRUE, value |-> x]

Throw(m) == [ok |-> FALSE, message |-> m]

\* s occurs in m as a contiguous substring.
Contains(m, s) ==
  \E i \in 1..(Len(m) - Len(s) + 1) : SubSeq(m, i, i + Len(s) - 1) = s

(* ------------------------------ JSON ----------------------------------- *)

ArgsHi == "{\"message\":\"hi\"}"

ArgsEmpty == "{}"

ArgsBad == "{"

\* Mutant of JSONparse: a malformed text is read as no arguments.
JSONparseLenient(s) ==
  CASE s = ArgsHi -> Ok(Obj(Str("hi")))
    [] OTHER -> Ok(Obj(Undefined))

\* JSON.parse on the argument texts the LLM backend produces here.
JSONparse(s) ==
  CASE s = ArgsHi -> Ok(Obj(Str("hi")))
    [] s = ArgsEmpty -> Ok(Obj(Undefined))
    [] OTHER -> Throw("Unexpected end of JSON input")

\* JSON.stringify of a content block.
StringifyBlock(b) ==
  "{\"type\":\"" \o b.type \o "\"" \o
  (IF b.text.t = "string" THEN ",\"text\":\"" \o b.text.v \o "\"" ELSE "")
  \o "}"

\* JSON.stringify of a Tool Host result.
StringifyResult(res) ==
  LET blocks == res.content.v
      join[i \in 0..Len(blocks)] ==
        IF i = 0 THEN ""
        ELSE join[i - 1] \o (IF i > 1 THEN "," ELSE "")
             \o StringifyBlock(blocks[i])
  IN CASE res.content.t = "array" ->
            "{\"content\":[" \o join[Len(blocks)] \o "]}"
       [] res.content.t = "null" -> "{\"content\":null}"
       [] OTHER -> "{}"

(* ------------------------ Tool Host (index.js) -------------------------- *)

EchoName == "echo"

EchoPrefix == "Echo: "

EchoSchema ==
  [t |-> "object", type |-> "object", properties |-> {"message"},
   required |-> <<"message">>]

\* Mutant of Catalog: once a call operation has been issued the catalog
\* lists a second descriptor ahead of echo.
CatalogAfterCalls ==
  LET echo == [name |-> EchoName,
               description |-> Str("Echo back the input message"),
               inputSchema |-> EchoSchema]
      called == \E r \in Slots : \E i \in 1..Len(req[r].trace) :
                  req[r].trace[i].ev = "callTool"
  IN [tools |-> IF called
                THEN <<[echo EXCEPT !.name = "add"], echo>>
                ELSE <<echo>>]

\* The ListTools handler: the fixed catalog.
Catalog ==
  [tools |-> <<[name |-> EchoName,
                description |-> Str("Echo back the input message"),
                inputSchema |-> EchoSchema]>>]

\* Mutant of EchoText: the message is trimmed before it is echoed.
EchoTextTrimmed(m) ==
  EchoPrefix \o (IF m = Str(" hi ") THEN "hi" ELSE StringOf(m))

\* The text of the echo capability: `Echo: ${args.message}`.
EchoText(m) == EchoPrefix \o StringOf(m)

\* Mutant of CallToolHandler: an unknown name is answered with empty content.
CallToolHandlerSilent(name, args) ==
  IF name = EchoName
  THEN Ok([content |-> Arr(<<[type |-> "text",
                             text |-> Str(EchoText(args.message))]>>)])
  ELSE Ok([content |-> Arr(<<>>)])

\* The CallTool handler.
CallToolHandler(name, args) ==
  IF name = EchoName
  THEN IF args.t \in {"undefined", "null"}
       THEN Throw("Cannot read properties of undefined (reading 'message')")
       ELSE Ok([content |-> Arr(<<[type |-> "text",
                                  text |-> Str(EchoText(args.message))]>>)])
  ELSE Throw("Unknown tool: " \o name)

(* --------------------- Bridge Service (backend.js) --------------------- *)

SystemPrompt ==
  "You are a helpful assistant that can use tools to help users. When you need to use a tool, call it with the appropriate parameters."

\* {} as a parameter schema.
EmptySchema == [t |-> "object"]

\* Mutant of convertMCPToolsToOpenAI: the catalog is reversed.
convertReversed(mcpTools) ==
  [i \in 1..Len(mcpTools.tools) |->
     LET tool == mcpTools.tools[Len(mcpTools.tools) + 1 - i] IN
     [type |-> "function",
      function |-> [name |-> tool.name,
                    description |-> OrElse(tool.description, Str("")),
                    parameters |-> OrElse(tool.inputSchema, EmptySchema)]]]

\* convertMCPToolsToOpenAI
convertMCPToolsToOpenAI(mcpTools) ==
  [i \in 1..Len(mcpTools.tools) |->
     LET tool == mcpTools.tools[i] IN
     [type |-> "function",
      function |-> [name |-> tool.name,
                    description |-> OrElse(tool.description, Str("")),
                    parameters |-> OrElse(tool.inputSchema, EmptySchema)]]]

\* Mutant of BuildMessages: the history is left out.
BuildMessagesNoHistory(message, history) ==
  <<[role |-> "system", content |-> Str(SystemPrompt)],
    [role |-> "user", content |-> message]>>

\* const messages = [system turn, ...history, user turn]
BuildMessages(message, history) ==
  <<[role |-> "system", content |-> Str(SystemPrompt)]>>
  \o history
  \o <<[role |-> "user", content |-> message]>>

\* The local variables of a handler activation that has not started, and
\* the record of what it has done so far (trace) and of the state the
\* connection to the Tool Host was in when it started (channel).
Idle ==
  [kind |-> "none", pc |-> "idle", body |-> Undefined, client |-> 0,
   messages |-> <<>>, assistantMessage |-> Undefined, k |-> 0,
   toolArgs |-> Undefined, toolResults |-> <<>>,
   response |-> [content |-> Str(""), toolCalls |-> <<>>],
   channel |-> "none", trace |-> <<>>]

Emit(rr, e) == [rr EXCEPT !.trace = Append(@, e)]

\* res.status(status).json(body); the handler ends.
Send(rr, status, body) ==
  [Emit(rr, [ev |-> "send", status |-> status, body |-> body])
     EXCEPT !.pc = "done"]

\* Mutant of Catch: the error is swallowed and the partial result is sent.
CatchSalvage(rr, msg) == Send(rr, 200, rr.response)

\* The catch block of a handler: res.status(500).json({error: error.message}).
Catch(rr, msg) == Send(rr, 500, [error |-> msg])

\* The kinds of failing steps a handler's try block can meet.
FailureKinds ==
  {"connectError", "channelError", "toolError", "llmError", "parseError",
   "typeError"}

\* A step inside the try block throws: control passes to the catch block.
ThrowIn(rr, kind, msg) == Catch(Emit(rr, [ev |-> kind, error |-> msg]), msg)

\* Mutant of NeedsInit: the handlers connect on every request.
NeedsInitAlways(c) == TRUE

\* if (!mcpClient)
NeedsInit(c) == c = 0

\* mcpClient.listTools() on the client c (0 is null).
IssueList(rr, c) ==
  IF c = 0
  THEN ThrowIn(rr, "typeError",
               "Cannot read properties of null (reading 'listTools')")
  ELSE [Emit(rr, [ev |-> "listTools", client |-> c])
          EXCEPT !.pc = "list", !.client = c]

\* mcpClient.callTool({name, arguments}) on the client c (0 is null).
IssueCall(rr, c, name, args) ==
  IF c = 0
  THEN ThrowIn(rr, "typeError",
               "Cannot read properties of null (reading 'callTool')")
  ELSE [Emit(rr, [ev |-> "callTool", client |-> c, name |-> name,
                  arguments |-> args])
          EXCEPT !.pc = "tool", !.client = c]

\* openai.chat.completions.create({messages, tools, tool_choice})
IssueLLM(rr, pc, messages, tools, choice) ==
  [Emit(rr, [ev |-> "llm", messages |-> messages, tools |-> tools,
             tool_choice |-> choice])
     EXCEPT !.pc = pc]

\* What a handler does once the client exists: its first Tool Host operation.
AfterInit(rr, c) ==
  IF rr.kind = "call"
  THEN IssueCall(rr, c, rr.body.name,
                 OrElse(rr.body.arguments, Obj(Undefined)))
  ELSE IssueList(rr, c)

\* Mutant of ExtractText: an empty text is kept (?? instead of ||).
ExtractTextNullish(toolResult) ==
  IF Truthy(toolResult.content) /\ Len(toolResult.content.v) > 0
  THEN IF TruthyNullish(toolResult.content.v[1].text)
       THEN toolResult.content.v[1].text
       ELSE Str(StringifyBlock(toolResult.content.v[1]))
  ELSE Str(StringifyResult(toolResult))

\* Mutant of ExtractText: the whole result is always serialized.
ExtractTextWhole(toolResult) == Str(StringifyResult(toolResult))

\* The flat text of a Tool Host result (backend.js, "Extract result text").
ExtractText(toolResult) ==
  IF Truthy(toolResult.content) /\ Len(toolResult.content.v) > 0
  THEN OrElse(toolResult.content.v[1].text,
              Str(StringifyBlock(toolResult.content.v[1])))
  ELSE Str(StringifyResult(toolResult))

\* The tool_calls of the assistant message as a sequence (empty if absent).
ToolCallsOf(m) == IF Truthy(m.tool_calls) THEN m.tool_calls.v ELSE <<>>

\* Mutant of HasToolCalls: the length test is left out.
HasToolCallsNoLength(m) == Truthy(m.tool_calls)

\* if (assistantMessage.tool_calls && assistantMessage.tool_calls.length > 0)
HasToolCalls(m) == Truthy(m.tool_calls) /\ Len(m.tool_calls.v) > 0

\* Mutant of FollowUpTools: the follow-up call offers the functions again.
FollowUpToolsAgain(functions) ==
  IF Len(functions) > 0 THEN Arr(functions) ELSE Undefined

\* The tools parameter of the follow-up LLM call: none.
FollowUpTools(functions) == Undefined

\* Mutant of ToolCallAt: the invocations are taken last to first.
ToolCallAtReversed(calls, k) == calls[Len(calls) + 1 - k]

\* The invocation the for-of loop visits at its k-th iteration.
ToolCallAt(calls, k) == calls[k]

\* The head of the for-of loop at position rr.k: parse the arguments and
\* call the Tool Host, or, past the last position, make the follow-up call.
RunLoop(rr, c) ==
  LET calls == ToolCallsOf(rr.assistantMessage) IN
  IF rr.k > Len(calls)
  THEN IssueLLM(rr, "llm2",
                rr.messages \o <<rr.assistantMessage>> \o rr.toolResults,
                FollowUpTools(convertMCPToolsToOpenAI(Catalog)), Undefined)
  ELSE LET toolCall == ToolCallAt(calls, rr.k)
           parsed == JSONparse(OrElse(toolCall.function.arguments,
                                      Str(ArgsEmpty)).v) IN
       IF ~parsed.ok
       THEN ThrowIn(rr, "parseError", parsed.message)
       ELSE IssueCall([rr EXCEPT !.toolArgs = parsed.value], c,
                      toolCall.function.name, parsed.value)

(* ------------------------------ inputs ---------------------------------- *)

Names == {EchoName, "add"}

\* Values of the `message` argument; undefined stands for an absent field.
MessageValues == {Undefined, Null, Str(""), Str("hi"), Str(" hi ")}

\* Bodies of POST /api/tools/call; arguments may be omitted.
CallBodies ==
  [name : Names, arguments : {Undefined} \cup {Obj(m) : m \in MessageValues}]

HistoryTurn == [role |-> "user", content |-> Str("earlier")]

\* Bodies of POST /api/chat; history may be omitted (the default [] applies)
\* or null (spreading it throws).
ChatBodies ==
  [message : {Str("Please echo 'hi'")},
   history : {Undefined, Null, Arr(<<>>), Arr(<<HistoryTurn>>)}]

Requests ==
  {[kind |-> "tools", body |-> Undefined]}
  \cup {[kind |-> "call", body |-> b] : b \in CallBodies}
  \cup {[kind |-> "chat", body |-> b] : b \in ChatBodies}

\* The requests of the runs that interleave several handlers.
RequestsConc ==
  {[kind |-> "tools", body |-> Undefined],
   [kind |-> "call",
    body |-> [name |-> EchoName, arguments |-> Obj(Str("hi"))]],
   [kind |-> "chat",
    body |-> [message |-> Str("Please echo 'hi'"), history |-> Undefined]],
   [kind |-> "chat",
    body |-> [message |-> Str("hello"), history |-> Arr(<<HistoryTurn>>)]]}

\* The function part of a tool invocation the LLM backend may request.
ToolCallChoices ==
  {[name |-> EchoName, arguments |-> a] :
     a \in {Str(ArgsHi), Str(ArgsEmpty), Str(ArgsBad), Str("")}}
  \cup {[name |-> "add", arguments |-> Str(ArgsEmpty)]}

Digits == <<"1", "2", "3", "4", "5", "6", "7", "8", "9">>

CallId(i) == "call_" \o Digits[i]

\* A tool_calls array: the i-th invocation carries the id call_i.
MkToolCalls(f) ==
  Arr([i \in 1..Len(f) |->
         [id |-> CallId(i), type |-> "function", function |-> f[i]]])

ToolCallLists(n) == UNION {[1..j -> ToolCallChoices] : j \in 0..n}

\* First responses of the LLM backend (choices[0].message).
FirstMessages ==
  [role : {"assistant"},
   content : {Null, Str(""), Str("ok")},
   tool_calls : {Undefined} \cup {MkToolCalls(f) : f \in ToolCallLists(MaxTools)}]

EchoHiCall == [name |-> EchoName, arguments |-> Str(ArgsHi)]

\* Follow-up responses; the backend may again ask for a tool.
SecondMessages ==
  [role : {"assistant"},
   content : {Null, Str(""), Str("The message was echoed: hi")},
   tool_calls : {Undefined, MkToolCalls(<<EchoHiCall>>)}]

FirstMessagesConc ==
  {[role |-> "assistant", content |-> Str("ok"), tool_calls |-> Undefined],
   [role |-> "assistant", content |-> Null,
    tool_calls |-> MkToolCalls(<<EchoHiCall>>)]}

SecondMessagesConc ==
  {[role |-> "assistant", content |-> Str("The message was echoed: hi"),
    tool_calls |-> Undefined]}

\* process.env.OPENAI_API_KEY: not set, set to the empty text, or a key.
EnvKeys == {Undefined, Str(""), Str("sk-test")}

\* No pure function is being evaluated.
NoCalc == [fn |-> "none"]

(* ------------------------------ actions --------------------------------- *)

\* The state after the module has been loaded, with the API key of the
\* environment one of `keys`.
BootServer(keys) ==
  /\ listening = FALSE
  /\ alive = TRUE
  /\ mcpClient = 0
  /\ mcpTransport = 0
  /\ clients = <<>>
  /\ req = [r \in Slots |-> Idle]
  /\ env \in keys

\* The loaded module, with no pure function under evaluation.
Boot(keys) == BootServer(keys) /\ calc = NoCalc

\* The process is started with an API key.
Init == Boot({Str("sk-test")})

\* The synchronous part of initMCPClient: a new transport and client are
\* created and assigned, and connect() is started for `owner` (0 is the
\* listen callback, r > 0 the handler in slot r).
InitMCPClientStart(owner) ==
  /\ clients' = Append(clients, [state |-> "connecting", owner |-> owner])
  /\ mcpTransport' = Len(clients) + 1
  /\ mcpClient' = Len(clients) + 1

\* The state of the channel to the Tool Host: failed once an attempt to
\* establish it has failed, else the state of the latest attempt.
ChannelState ==
  IF clients = <<>> THEN "none"
  ELSE IF \E c \in 1..Len(clients) : clients[c].state = "failed" THEN "failed"
  ELSE clients[Len(clients)].state

\* Mutant of ClientAfterFail: the catch block of initMCPClient clears the
\* client, so that the next request connects again.
ClientAfterFailCleared(c) == 0

\* The module-level client after a failed connect: the catch block of
\* initMCPClient logs and rethrows, the client stays assigned.
ClientAfterFail(c) == c

\* app.listen callback: the server starts to accept requests and connects.
ListenCallback ==
  /\ alive /\ ~listening
  /\ listening' = TRUE
  /\ InitMCPClientStart(0)
  /\ UNCHANGED <<alive, req, env, calc>>

\* await mcpClient.connect(mcpTransport) resolves.
ConnectOk(c) ==
  /\ alive /\ c \in 1..Len(clients) /\ clients[c].state = "connecting"
  /\ clients' = [clients EXCEPT ![c].state = "connected"]
  /\ req' = IF clients[c].owner = 0 THEN req
            ELSE [req EXCEPT ![clients[c].owner] = AfterInit(@, mcpClient)]
  /\ UNCHANGED <<listening, alive, mcpClient, mcpTransport, env, calc>>

\* await mcpClient.connect(mcpTransport) rejects; initMCPClient rethrows.
\* In a handler the catch block answers; in the listen callback nothing
\* handles the rejection, and the runtime either ends the process or goes on.
ConnectFail(c) ==
  /\ alive /\ c \in 1..Len(clients) /\ clients[c].state = "connecting"
  /\ clients' = [clients EXCEPT ![c].state = "failed"]
  /\ IF clients[c].owner = 0
     THEN /\ alive' \in BOOLEAN
          /\ req' = req
     ELSE /\ alive' = alive
          /\ req' = [req EXCEPT ![clients[c].owner] =
                       ThrowIn(@, "connectError", "spawn ENOENT")]
  /\ mcpClient' = ClientAfterFail(mcpClient)
  /\ UNCHANGED <<listening, mcpTransport, env, calc>>

\* A request arrives and its handler runs to its first await.  With
\* `alone`, it arrives only when no other handler is active.
Arrive(r, inputs, alone) ==
  /\ alive /\ listening /\ req[r].pc = "idle"
  /\ alone => \A q \in Slots : req[q].pc = "idle"
  /\ \E in \in inputs :
       LET rr == [Idle EXCEPT !.kind = in.kind, !.body = in.body,
                              !.channel = ChannelState] IN
       IF NeedsInit(mcpClient)
       THEN /\ InitMCPClientStart(r)
            /\ req' = [req EXCEPT ![r] =
                 [Emit(rr, [ev |-> "init", client |-> Len(clients) + 1])
                    EXCEPT !.pc = "init"]]
       ELSE /\ req' = [req EXCEPT ![r] = AfterInit(rr, mcpClient)]
            /\ UNCHANGED <<clients, mcpClient, mcpTransport>>
  /\ UNCHANGED <<listening, alive, env, calc>>

\* The Tool Host answers a list operation.
ListReply(r) ==
  /\ alive /\ req[r].pc = "list"
  /\ clients[req[r].client].state # "failed"
  /\ LET rr == Emit(req[r], [ev |-> "toolResult", result |-> Catalog])
         functions == convertMCPToolsToOpenAI(Catalog)
         body == rr.body
         history == IF body.history.t = "array" THEN body.history.v ELSE <<>>
         messages == BuildMessages(body.message, history)
     IN req' = [req EXCEPT ![r] =
          IF rr.kind = "tools"
          THEN Send(rr, 200, Catalog)
          ELSE IF body.history.t = "null"
          THEN ThrowIn(rr, "typeError", "history is not iterable")
          ELSE IssueLLM([rr EXCEPT !.messages = messages], "llm1", messages,
                        IF Len(functions) > 0 THEN Arr(functions) ELSE Undefined,
                        IF Len(functions) > 0 THEN Str("auto") ELSE Undefined)]
  /\ UNCHANGED <<listening, alive, mcpClient, mcpTransport, clients, env, calc>>

\* Mutant of ToolResultsOf: toolResults is one module-level list that all
\* exchanges push to.
ToolResultsShared(r) ==
  LET all[i \in 0..MaxReq] ==
        IF i = 0 THEN <<>> ELSE all[i - 1] \o req[i].toolResults
  IN all[MaxReq]

\* const toolResults = []: the list of the exchange in slot r.
ToolResultsOf(r) == req[r].toolResults

\* The Tool Host answers a call operation: a result, or an error raised by
\* its CallTool handler.
CallReply(r) ==
  /\ alive /\ req[r].pc = "tool"
  /\ clients[req[r].client].state # "failed"
  /\ LET op == req[r].trace[Len(req[r].trace)]
         out == CallToolHandler(op.name, op.arguments)
     IN req' = [req EXCEPT ![r] =
          IF ~out.ok
          THEN ThrowIn(@, "toolError", out.message)
          ELSE LET rr == Emit(@, [ev |-> "toolResult", result |-> out.value])
                   resultText == ExtractText(out.value) IN
               IF rr.kind = "call"
               THEN Send(rr, 200, out.value)
               ELSE RunLoop(
                      [rr EXCEPT
                         !.toolResults = Append(ToolResultsOf(r),
                            [tool_call_id |->
                               ToolCallAt(ToolCallsOf(rr.assistantMessage), rr.k).id,
                             role |-> "tool", name |-> op.name,
                             content |-> resultText]),
                         !.response.toolCalls = Append(@,
                            [name |-> op.name, arguments |-> rr.toolArgs,
                             result |-> resultText]),
                         !.k = @ + 1],
                      mcpClient)]
  /\ UNCHANGED <<listening, alive, mcpClient, mcpTransport, clients, env, calc>>

\* A pending Tool Host operation fails on the channel (not connected, closed).
ChannelFail(r) ==
  /\ alive /\ req[r].pc \in {"list", "tool"}
  /\ req' = [req EXCEPT ![r] = ThrowIn(@, "channelError", "Connection closed")]
  /\ UNCHANGED <<listening, alive, mcpClient, mcpTransport, clients, env, calc>>

\* The first LLM call returns.
LLMReply1(r, answers) ==
  /\ alive /\ req[r].pc = "llm1"
  /\ \E m \in answers :
       LET rr == [Emit(req[r], [ev |-> "llmResult", message |-> m])
                    EXCEPT !.assistantMessage = m,
                           !.response = [content |-> OrElse(m.content, Str("")),
                                         toolCalls |-> <<>>]]
       IN req' = [req EXCEPT ![r] =
            IF HasToolCalls(m)
            THEN RunLoop([rr EXCEPT !.k = 1], mcpClient)
            ELSE Send(rr, 200, rr.response)]
  /\ UNCHANGED <<listening, alive, mcpClient, mcpTransport, clients, env, calc>>

\* Mutant of LLMReply2: a follow-up response that requests tools starts
\* another round of the tool loop.
LLMReply2Loop(r, answers) ==
  /\ alive /\ req[r].pc = "llm2"
  /\ \E m \in answers :
       LET rr == [Emit(req[r], [ev |-> "llmResult", message |-> m])
                    EXCEPT !.response.content = OrElse(m.content, @)]
       IN req' = [req EXCEPT ![r] =
            IF HasToolCalls(m)
            THEN RunLoop([rr EXCEPT !.assistantMessage = m, !.k = 1,
                                    !.toolResults = <<>>], mcpClient)
            ELSE Send(rr, 200, rr.response)]
  /\ UNCHANGED <<listening, alive, mcpClient, mcpTransport, clients, env, calc>>

\* The follow-up LLM call returns.
LLMReply2(r, answers) ==
  /\ alive /\ req[r].pc = "llm2"
  /\ \E m \in answers :
       LET rr == [Emit(req[r], [ev |-> "llmResult", message |-> m])
                    EXCEPT !.response.content = OrElse(m.content, @)]
       IN req' = [req EXCEPT ![r] = Send(rr, 200, rr.response)]
  /\ UNCHANGED <<listening, alive, mcpClient, mcpTransport, clients, env, calc>>

\* A pending LLM call fails (authentication, rate limit, network).
LLMFail(r) ==
  /\ alive /\ req[r].pc \in {"llm1", "llm2"}
  /\ req' = [req EXCEPT ![r] = ThrowIn(@, "llmError", "LLM request failed")]
  /\ UNCHANGED <<listening, alive, mcpClient, mcpTransport, clients, env, calc>>

\* The response has been delivered; the activation's state is dropped.
Release(r) ==
  /\ alive /\ req[r].pc = "done"
  /\ req' = [req EXCEPT ![r] = Idle]
  /\ UNCHANGED <<listening, alive, mcpClient, mcpTransport, clients, env, calc>>

\* const OPENAI_API_KEY = process.env.OPENAI_API_KEY || "None"
OPENAI_API_KEY == OrElse(env, Str("None"))

\* The body of the health check.
HealthBody ==
  [status |-> "ok",
   connected |-> mcpClient # 0,
   openaiConfigured |-> Truthy(OPENAI_API_KEY) /\ OPENAI_API_KEY # Str("")]

\* GET /api/health: the handler answers without suspending.
Health(r) ==
  /\ alive /\ listening /\ req[r].pc = "idle"
  /\ req' = [req EXCEPT ![r] =
       Send([Idle EXCEPT !.kind = "health", !.channel = ChannelState],
            200, HealthBody)]
  /\ UNCHANGED <<listening, alive, mcpClient, mcpTransport, clients, env, calc>>

\* One handler at a time, with the full range of inputs and LLM answers.
Next ==
  \/ ListenCallback
  \/ \E c \in 1..Len(clients) : ConnectOk(c)
  \/ \E c \in 1..Len(clients) : ConnectFail(c)
  \/ \E r \in Slots : Arrive(r, Requests, TRUE)
  \/ \E r \in Slots : ListReply(r)
  \/ \E r \in Slots : CallReply(r)
  \/ \E r \in Slots : ChannelFail(r)
  \/ \E r \in Slots : LLMReply1(r, FirstMessages)
  \/ \E r \in Slots : LLMReply2(r, SecondMessages)
  \/ \E r \in Slots : LLMFail(r)
  \/ \E r \in Slots : Release(r)

Spec == Init /\ [][Next]_vars

\* Handlers interleaved at their awaits, with a small range of inputs.
NextConc ==
  \/ ListenCallback
  \/ \E c \in 1..Len(clients) : ConnectOk(c)
  \/ \E c \in 1..Len(clients) : ConnectFail(c)
  \/ \E r \in Slots : Arrive(r, RequestsConc, FALSE)
  \/ \E r \in Slots : ListReply(r)
  \/ \E r \in Slots : CallReply(r)
  \/ \E r \in Slots : ChannelFail(r)
  \/ \E r \in Slots : LLMReply1(r, FirstMessagesConc)
  \/ \E r \in Slots : LLMReply2(r, SecondMessagesConc)
  \/ \E r \in Slots : LLMFail(r)
  \/ \E r \in Slots : Release(r)

SpecConc == Init /\ [][NextConc]_vars

(* ------------------------- reading a trace ------------------------------ *)

EventsOf(rr, e) == SelectSeq(rr.trace, LAMBDA x : x.ev = e)

\* The last event of a handler that has answered: the response it sent.
SentBy(rr) == rr.trace[Len(rr.trace)]

\* The text of an LLM response; an absent text is the empty text.
TextOf(m) == IF m.content.t = "string" THEN m.content.v ELSE ""

\* The tool invocations an LLM response requests.
RequestedBy(m) == IF m.tool_calls.t = "array" THEN m.tool_calls.v ELSE <<>>

\* The argument mapping a requested invocation denotes: no text denotes no
\* arguments, a malformed text denotes nothing (undefined).
ArgumentsOf(toolCall) ==
  LET a == toolCall.function.arguments IN
  IF a.t = "string" /\ a.v # ""
  THEN IF JSONparse(a.v).ok THEN JSONparse(a.v).value ELSE Undefined
  ELSE Obj(Undefined)

\* The handler in slot r is a chat exchange that has received the first
\* LLM response.
HasFirst(r) ==
  req[r].kind = "chat" /\ Len(EventsOf(req[r], "llmResult")) >= 1

FirstOf(r) == EventsOf(req[r], "llmResult")[1].message

\* The chat exchange in slot r has answered with success.
ChatOk(r) ==
  /\ req[r].kind = "chat" /\ req[r].pc = "done"
  /\ SentBy(req[r]).status = 200

\* The chat exchange in slot r went through the tool round and succeeded.
ToolRoundOk(r) == ChatOk(r) /\ Len(RequestedBy(FirstOf(r))) >= 1

(* ------------------------------ claims ---------------------------------- *)

\* C1: a successful chat exchange whose first LLM response requests n >= 1
\* tool invocations consists of the catalog fetch, the first LLM call, n
\* Tool Host calls each answered before the next, one follow-up LLM call and
\* the response; the i-th toolCalls record has the i-th request's name and
\* arguments and the text of the i-th Tool Host result.
C1_ToolRound ==
  \A r \in Slots : ToolRoundOk(r) =>
    LET T == req[r].trace
        calls == RequestedBy(FirstOf(r))
        n == Len(calls)
        recs == SentBy(req[r]).body.toolCalls
    IN /\ Len(T) = 2 * n + 7
       /\ Len(EventsOf(req[r], "callTool")) = n
       /\ Len(EventsOf(req[r], "llm")) = 2
       /\ T[2 * n + 5].ev = "llm" /\ T[2 * n + 6].ev = "llmResult"
       /\ Len(recs) = n
       /\ \A i \in 1..n :
            /\ T[2 * i + 3].ev = "callTool"
            /\ T[2 * i + 3].name = calls[i].function.name
            /\ T[2 * i + 3].arguments = ArgumentsOf(calls[i])
            /\ T[2 * i + 4].ev = "toolResult"
            /\ recs[i].name = calls[i].function.name
            /\ recs[i].arguments = ArgumentsOf(calls[i])
            /\ recs[i].result = T[2 * i + 4].result.content.v[1].text

\* C1 witness: an exchange with two tool invocations has succeeded.
C1_Witness ==
  \E r \in Slots :
    /\ ToolRoundOk(r)
    /\ Len(SentBy(req[r]).body.toolCalls) >= 2
    /\ SentBy(req[r]).body.toolCalls[1].result = Str("Echo: hi")

\* C2: a chat exchange whose first LLM response requests no tool invocation
\* answers at once with that response's text and an empty toolCalls list; it
\* issues no Tool Host call and no second LLM call.
C2_NoTools ==
  \A r \in Slots :
    (HasFirst(r) /\ Len(RequestedBy(FirstOf(r))) = 0) =>
      /\ req[r].pc = "done"
      /\ Len(EventsOf(req[r], "callTool")) = 0
      /\ Len(EventsOf(req[r], "llm")) = 1
      /\ Len(EventsOf(req[r], "send")) = 1
      /\ SentBy(req[r]).status = 200
      /\ SentBy(req[r]).body =
           [content |-> Str(TextOf(FirstOf(r))), toolCalls |-> <<>>]

\* C2 witness: an exchange answered a first response with an empty
\* tool_calls list and a text.
C2_Witness ==
  \E r \in Slots :
    /\ HasFirst(r) /\ req[r].pc = "done"
    /\ FirstOf(r).tool_calls = Arr(<<>>)
    /\ FirstOf(r).content = Str("ok")

\* C3: a chat exchange makes at most two LLM calls, the second without
\* function declarations, and issues no Tool Host call after the second
\* LLM call, whatever the second response requests.
C3_OneRound ==
  \A r \in Slots : req[r].kind = "chat" =>
    LET T == req[r].trace
        llm == EventsOf(req[r], "llm")
    IN /\ Len(llm) <= 2
       /\ Len(llm) = 2 =>
            /\ llm[2].tools = Undefined
            /\ llm[2].tool_choice = Undefined
            /\ \A i, j \in 1..Len(T) :
                 (T[i].ev = "llm" /\ T[j].ev = "llm" /\ i < j) =>
                    \A m \in j..Len(T) : T[m].ev # "callTool"
       /\ HasFirst(r) =>
            Len(EventsOf(req[r], "callTool")) <= Len(RequestedBy(FirstOf(r)))

\* C3 witness: an exchange has answered after a second LLM response that
\* itself requested a tool invocation.
C3_Witness ==
  \E r \in Slots :
    /\ ToolRoundOk(r)
    /\ Len(RequestedBy(EventsOf(req[r], "llmResult")[2].message)) >= 1

\* C4: the Tool Host calls of a chat exchange are issued in the order of the
\* first response's tool_calls, and each is answered (or has failed) before
\* the next is issued.
C4_Sequential ==
  \A r \in Slots : HasFirst(r) =>
    LET T == req[r].trace
        issued == EventsOf(req[r], "callTool")
        calls == RequestedBy(FirstOf(r))
    IN /\ Len(issued) <= Len(calls)
       /\ \A j \in 1..Len(issued) :
            /\ issued[j].name = calls[j].function.name
            /\ issued[j].arguments = ArgumentsOf(calls[j])
       /\ \A i \in 1..Len(T) : T[i].ev = "callTool" =>
            \/ i = Len(T)
            \/ T[i + 1].ev \in {"toolResult", "toolError", "channelError"}

\* C4 witness: the second of two different invocations is pending after the
\* first was answered.
C4_Witness ==
  \E r \in Slots :
    /\ HasFirst(r) /\ req[r].pc = "tool"
    /\ Len(EventsOf(req[r], "callTool")) = 2
    /\ Len(EventsOf(req[r], "toolResult")) = 2
    /\ RequestedBy(FirstOf(r))[1].function # RequestedBy(FirstOf(r))[2].function

SecondOf(r) == EventsOf(req[r], "llmResult")[2].message

\* C5 as stated: on the tool path the content returned is the text of the
\* follow-up LLM response, whatever that text is.
C5_Original ==
  \A r \in Slots : ToolRoundOk(r) =>
    SentBy(req[r]).body.content = Str(TextOf(SecondOf(r)))

\* C5 amended: on the tool path the content returned is the text of the
\* follow-up LLM response when that text is not empty, and otherwise the
\* text of the first response (the empty text when that is absent too).
C5_FollowUpText ==
  \A r \in Slots : ToolRoundOk(r) =>
    SentBy(req[r]).body.content =
      IF TextOf(SecondOf(r)) # "" THEN Str(TextOf(SecondOf(r)))
      ELSE Str(TextOf(FirstOf(r)))

\* C5 witness: the follow-up text is empty while the first response had one.
C5_Witness ==
  \E r \in Slots :
    /\ ToolRoundOk(r)
    /\ TextOf(SecondOf(r)) = "" /\ TextOf(FirstOf(r)) = "ok"

(* --------------------------- Tool Host claims --------------------------- *)

CatalogNames == {Catalog.tools[i].name : i \in 1..Len(Catalog.tools)}

\* The Tool Host calls issued by the handler in slot r, as positions of
\* its trace.
CallsAt(r) == {i \in 1..Len(req[r].trace) : req[r].trace[i].ev = "callTool"}

\* The call issued at position i has been answered or has failed.
Settled(r, i) == i < Len(req[r].trace)

\* C6: a Tool Host call of "echo" with {message: s}, s a string, returns one
\* text block whose text is "Echo: " followed by s unchanged, and
\* POST /api/tools/call answers with that result.
C6_Echo ==
  \A r \in Slots : \A i \in CallsAt(r) :
    LET T == req[r].trace
        op == T[i]
    IN (/\ Settled(r, i) /\ T[i + 1].ev # "channelError"
        /\ op.name = EchoName /\ op.arguments.message.t = "string") =>
         /\ T[i + 1].ev = "toolResult"
         /\ T[i + 1].result =
              [content |-> Arr(<<[type |-> "text",
                                  text |-> Str("Echo: " \o op.arguments.message.v)]>>)]
         /\ req[r].kind = "call" =>
              /\ req[r].pc = "done"
              /\ SentBy(req[r]) =
                   [ev |-> "send", status |-> 200, body |-> T[i + 1].result]

\* C6 witness: /api/tools/call has answered an echo of a message with
\* surrounding blanks.
C6_Witness ==
  \E r \in Slots :
    /\ req[r].kind = "call" /\ req[r].pc = "done"
    /\ req[r].body = [name |-> EchoName, arguments |-> Obj(Str(" hi "))]
    /\ SentBy(req[r]).status = 200

\* C7: a Tool Host call with a name outside the catalog never returns a
\* result: it fails with a message that contains the name, and the handler
\* that issued it answers with that error.
C7_UnknownTool ==
  \A r \in Slots : \A i \in CallsAt(r) :
    LET T == req[r].trace IN
    (/\ Settled(r, i) /\ T[i + 1].ev # "channelError"
     /\ T[i].name \notin CatalogNames) =>
       /\ T[i + 1].ev = "toolError"
       /\ Contains(T[i + 1].error, T[i].name)
       /\ SentBy(req[r]) =
            [ev |-> "send", status |-> 500,
             body |-> [error |-> T[i + 1].error]]

\* C7 witness: a chat exchange has failed on a call of the unknown "add"
\* after an echo call was answered.
C7_Witness ==
  \E r \in Slots : \E i \in CallsAt(r) :
    /\ req[r].kind = "chat" /\ req[r].pc = "done" /\ i > 5
    /\ req[r].trace[i].name = "add"
    /\ req[r].trace[i + 1].ev = "toolError"

\* C8 as stated: an echo call whose arguments lack `message` never returns
\* a result.
C8_MissingMessage ==
  \A r \in Slots : \A i \in CallsAt(r) :
    LET T == req[r].trace IN
    (/\ Settled(r, i)
     /\ T[i].name = EchoName /\ T[i].arguments.message = Undefined) =>
       T[i + 1].ev # "toolResult"

(* ----------------------------- Bridge claims ---------------------------- *)

\* C9: a failing step of a handler is its last step but one: the handler
\* then sends its only response, with status 500 and body {error: message},
\* and does nothing more.
C9_Failure ==
  \A r \in Slots :
    LET T == req[r].trace IN
    /\ Len(EventsOf(req[r], "send")) <= 1
    /\ \A i \in 1..Len(T) :
         /\ T[i].ev = "send" => (i = Len(T) /\ req[r].pc = "done")
         /\ T[i].ev \in FailureKinds =>
              /\ i + 1 = Len(T)
              /\ T[i + 1] = [ev |-> "send", status |-> 500,
                             body |-> [error |-> T[i].error]]

\* C9 witness: a chat exchange failed on its second Tool Host call, after
\* the first had been answered.
C9_Witness ==
  \E r \in Slots :
    /\ req[r].kind = "chat" /\ req[r].pc = "done"
    /\ SentBy(req[r]).status = 500
    /\ Len(EventsOf(req[r], "toolResult")) = 2
    /\ Len(EventsOf(req[r], "callTool")) = 2

\* Every Tool Host operation issued so far went to the module-level client.
UsesSharedClient ==
  \A r \in Slots : \A i \in 1..Len(req[r].trace) :
    req[r].trace[i].ev \in {"listTools", "callTool"} =>
      req[r].trace[i].client = mcpClient

\* C10: at most one connection attempt is ever started, every handler
\* operates on the module-level client, and that client, once set, is never
\* replaced.
C10_OneChannel ==
  /\ [](Len(clients) <= 1 /\ mcpClient = mcpTransport /\ UsesSharedClient)
  /\ [][mcpClient # 0 => mcpClient' = mcpClient]_vars

\* C10 witness: two handlers are waiting for the Tool Host while the
\* connection started by the listen callback is still being established.
C10_Witness ==
  /\ Len(clients) = 1 /\ clients[1].state = "connecting"
  /\ \E r, q \in Slots :
       /\ r # q
       /\ req[r].pc \in {"list", "tool"}
       /\ req[q].pc \in {"list", "tool"}

\* A handler that started after establishing the channel had failed.
StartedAfterFailure(r) == req[r].channel = "failed"

\* C11: once establishing the channel has failed, no connection attempt is
\* ever started again and the module-level client stays as it is; a request
\* that arrives from then on gets no result from the Tool Host, and the only
\* response it can get is an error response.
C11_NoReconnect ==
  /\ [](\A r \in Slots : StartedAfterFailure(r) =>
          /\ Len(clients) = 1
          /\ Len(EventsOf(req[r], "init")) = 0
          /\ Len(EventsOf(req[r], "toolResult")) = 0
          /\ Len(EventsOf(req[r], "llm")) = 0
          /\ req[r].pc = "done" =>
               /\ SentBy(req[r]).status = 500
               /\ Len(req[r].trace) = 3
               /\ req[r].trace[1].ev \in {"listTools", "callTool"}
               /\ req[r].trace[2].ev = "channelError")
  /\ [][ChannelState = "failed" =>
          /\ clients' = clients
          /\ mcpClient' = mcpClient]_vars

\* C11 witness: a chat request that arrived after the failure has been
\* answered, the process still running.
C11_Witness ==
  \E r \in Slots :
    /\ alive /\ StartedAfterFailure(r)
    /\ req[r].kind = "chat" /\ req[r].pc = "done"

(* ---------------------------- health check ------------------------------ *)

\* The process is started with or without an API key.
InitEnv == Boot(EnvKeys)

\* The health check and the catalog endpoint, interleaved with the
\* connection to the Tool Host.
NextHealth ==
  \/ ListenCallback
  \/ \E c \in 1..Len(clients) : ConnectOk(c)
  \/ \E c \in 1..Len(clients) : ConnectFail(c)
  \/ \E r \in Slots : Health(r)
  \/ \E r \in Slots : Arrive(r, {[kind |-> "tools", body |-> Undefined]}, FALSE)
  \/ \E r \in Slots : ListReply(r)
  \/ \E r \in Slots : ChannelFail(r)
  \/ \E r \in Slots : Release(r)

SpecHealth == InitEnv /\ [][NextHealth]_vars

\* A health check has been answered in slot r.
HealthDone(r) == req[r].kind = "health" /\ req[r].pc = "done"

\* C12 as stated: the health check reports openaiConfigured: true exactly
\* when the environment supplied a key, and false when the key is the
\* placeholder.
C12_KeyReported ==
  \A r \in Slots : HealthDone(r) =>
    (SentBy(req[r]).body.openaiConfigured <=> Truthy(env))

\* C19 as stated: the health check reports connected: true only if the
\* channel to the Tool Host was established when it answered.
C19_ConnectedReported ==
  \A r \in Slots : HealthDone(r) =>
    (SentBy(req[r]).body.connected => req[r].channel = "connected")

(* ------------------------- exchanges in parallel ------------------------ *)

SystemTurn == [role |-> "system", content |-> Str(SystemPrompt)]

\* The history a chat body supplies (none when omitted).
HistoryOf(body) == IF body.history.t = "array" THEN body.history.v ELSE <<>>

\* The message list an exchange with this body starts from.
OwnMessages(body) ==
  <<SystemTurn>> \o HistoryOf(body)
  \o <<[role |-> "user", content |-> body.message]>>

\* The results the Tool Host returned to the calls of the handler in slot r.
OwnResults(r) ==
  LET T == req[r].trace
      at[i \in 0..Len(T)] ==
        IF i = 0 THEN <<>>
        ELSE IF i > 1 /\ T[i].ev = "toolResult" /\ T[i - 1].ev = "callTool"
        THEN Append(at[i - 1], T[i].result)
        ELSE at[i - 1]
  IN at[Len(T)]

\* The tool-answer turns that belong to the exchange in slot r: one per
\* result it received, tagged with the id of the invocation it answers.
OwnToolAnswers(r) ==
  [i \in 1..Len(OwnResults(r)) |->
     [tool_call_id |-> RequestedBy(FirstOf(r))[i].id,
      role |-> "tool",
      name |-> RequestedBy(FirstOf(r))[i].function.name,
      content |-> OwnResults(r)[i].content.v[1].text]]

\* C13: with chat exchanges interleaved, the message lists of an exchange
\* hold only the system turn, its own history and message, its own
\* assistant turn and the answers to its own invocations, and its toolCalls
\* are its own invocations; a handler starts from empty locals and leaves
\* none behind.
C13_Independent ==
  /\ [](\A r \in Slots : req[r].kind = "chat" =>
          LET llm == EventsOf(req[r], "llm") IN
          /\ Len(llm) >= 1 => llm[1].messages = OwnMessages(req[r].body)
          /\ Len(llm) >= 2 =>
               llm[2].messages =
                 OwnMessages(req[r].body) \o <<FirstOf(r)>> \o OwnToolAnswers(r)
          /\ HasFirst(r) =>
               /\ req[r].toolResults = OwnToolAnswers(r)
               /\ Len(req[r].response.toolCalls) = Len(OwnResults(r))
               /\ \A i \in 1..Len(req[r].response.toolCalls) :
                    /\ req[r].response.toolCalls[i].name =
                         RequestedBy(FirstOf(r))[i].function.name
                    /\ req[r].response.toolCalls[i].result =
                         OwnResults(r)[i].content.v[1].text
          /\ ~HasFirst(r) =>
               /\ req[r].toolResults = <<>>
               /\ req[r].response.toolCalls = <<>>)
  /\ [][\A r \in Slots :
          (req[r].pc = "done" /\ req'[r] # req[r]) => req'[r] = Idle]_vars

\* C13 witness: two exchanges with different messages have both received
\* tool results and are both still running.
C13_Witness ==
  \E r, q \in Slots :
    /\ r # q
    /\ req[r].kind = "chat" /\ req[q].kind = "chat"
    /\ req[r].body # req[q].body
    /\ req[r].pc \in {"tool", "llm2"} /\ req[q].pc \in {"tool", "llm2"}
    /\ Len(req[r].toolResults) >= 1 /\ Len(req[q].toolResults) >= 1


(* -------------------------- catalog translation ------------------------- *)

\* Longest catalog that is translated.
MaxCatalog == 2

\* Descriptors a Tool Host may advertise; description and inputSchema may
\* be missing.
Descriptors ==
  [name : Names,
   description : {Undefined, Str(""), Str("Echo back the input message")},
   inputSchema : {Undefined, EchoSchema}]

Catalogs ==
  {[tools |-> q] : q \in UNION {[1..j -> Descriptors] : j \in 0..MaxCatalog}}

\* A catalog is about to be translated.
InitConvert ==
  /\ BootServer({Str("sk-test")})
  /\ calc \in {[fn |-> "convert", in |-> c, out |-> <<>>, done |-> FALSE] :
                 c \in Catalogs}

\* const openaiTools = convertMCPToolsToOpenAI(toolsResult)
Convert ==
  /\ calc.fn = "convert" /\ ~calc.done
  /\ calc' = [calc EXCEPT !.out = convertMCPToolsToOpenAI(calc.in),
                          !.done = TRUE]
  /\ UNCHANGED <<listening, alive, mcpClient, mcpTransport, clients, req, env>>

SpecConvert == InitConvert /\ [][Convert]_vars

\* C14: a catalog of k descriptors is translated to exactly k function
\* declarations in the same order; the i-th has the name of the i-th
\* descriptor, its inputSchema unchanged as parameters (an empty object
\* when the schema is missing), and its description (the empty string when
\* the description is missing).
C14_Translation ==
  (calc.fn = "convert" /\ calc.done) =>
    LET in == calc.in.tools
        out == calc.out
    IN /\ Len(out) = Len(in)
       /\ \A i \in 1..Len(in) :
            /\ out[i].type = "function"
            /\ out[i].function.name = in[i].name
            /\ out[i].function.parameters =
                 (IF in[i].inputSchema = Undefined THEN EmptySchema
                  ELSE in[i].inputSchema)
            /\ out[i].function.description =
                 (IF in[i].description = Undefined THEN Str("")
                  ELSE in[i].description)

\* A catalog of two different descriptors, one without description and
\* schema, has been translated.
C14_Witness ==
  /\ calc.fn = "convert" /\ calc.done
  /\ Len(calc.in.tools) = 2
  /\ calc.in.tools[1].name # calc.in.tools[2].name
  /\ calc.in.tools[1].description = Undefined
  /\ calc.in.tools[1].inputSchema = Undefined
  /\ calc.in.tools[2].inputSchema = EchoSchema
  /\ Len(calc.out) = 2


(* --------------------------- listing the catalog ------------------------ *)

\* The catalogs the list operations of the handler in slot r returned.
ListResults(r) ==
  LET T == req[r].trace
      at[i \in 0..Len(T)] ==
        IF i = 0 THEN <<>>
        ELSE IF i > 1 /\ T[i].ev = "toolResult" /\ T[i - 1].ev = "listTools"
        THEN Append(at[i - 1], T[i].result)
        ELSE at[i - 1]
  IN at[Len(T)]

\* A call operation of the handler in slot r has been answered or has failed.
CallSettled(r) ==
  \E i \in 2..Len(req[r].trace) :
    /\ req[r].trace[i - 1].ev = "callTool"
    /\ req[r].trace[i].ev \in {"toolResult", "toolError", "channelError"}

\* C15: all list operations, whatever call operations succeed or fail
\* between them, return the same catalog (same descriptors, same order,
\* same field values); GET /api/tools passes it on; the names in it are
\* unique.
C15_ListIdempotent ==
  /\ \A r1, r2 \in Slots :
       \A i \in 1..Len(ListResults(r1)) : \A j \in 1..Len(ListResults(r2)) :
         ListResults(r1)[i] = ListResults(r2)[j]
  /\ \A r \in Slots : \A i \in 1..Len(ListResults(r)) :
       LET tools == ListResults(r)[i].tools IN
       /\ \A a, b \in 1..Len(tools) : tools[a].name = tools[b].name => a = b
       /\ (req[r].kind = "tools" /\ req[r].pc = "done")
            => SentBy(req[r]).body = ListResults(r)[i]

\* Two handlers have listed the catalog, one of them in an exchange whose
\* call operation has been answered or has failed, and GET /api/tools has
\* passed the catalog on.
C15_Witness ==
  \E r1, r2 \in Slots :
    /\ r1 # r2
    /\ Len(ListResults(r1)) = 1 /\ CallSettled(r1)
    /\ req[r2].kind = "tools" /\ req[r2].pc = "done"
    /\ Len(ListResults(r2)) = 1
    /\ SentBy(req[r2]).status = 200


(* ---------------------------- message lists ----------------------------- *)

\* p is a prefix of q.
IsPrefix(p, q) == Len(p) <= Len(q) /\ SubSeq(q, 1, Len(p)) = p

\* C16: the first LLM call gets [system turn] ++ history (verbatim, empty
\* when omitted) ++ [user turn]; the follow-up call gets that list as a
\* prefix, then the assistant's tool-requesting turn, then one tool-answer
\* turn per executed invocation in execution order, the i-th tagged with
\* the id of the i-th requested invocation; the turns of an exchange are
\* only ever appended to.
C16_Messages ==
  /\ [](\A r \in Slots : req[r].kind = "chat" =>
          LET llm == EventsOf(req[r], "llm")
              first == <<SystemTurn>> \o HistoryOf(req[r].body)
                       \o <<[role |-> "user", content |-> req[r].body.message]>>
          IN /\ Len(llm) >= 1 => llm[1].messages = first
             /\ Len(llm) >= 2 =>
                  LET m == llm[2].messages
                      n == Len(first)
                      asked == RequestedBy(FirstOf(r))
                      results == OwnResults(r)
                  IN /\ IsPrefix(llm[1].messages, m)
                     /\ Len(m) = n + 1 + Len(asked)
                     /\ m[n + 1] = FirstOf(r)
                     /\ Len(results) = Len(asked)
                     /\ \A i \in 1..Len(asked) :
                          /\ m[n + 1 + i].role = "tool"
                          /\ m[n + 1 + i].tool_call_id = asked[i].id
                          /\ m[n + 1 + i].name = asked[i].function.name
                          /\ m[n + 1 + i].content = ExtractText(results[i]))
  /\ [][\A r \in Slots :
          (req[r].kind = "chat" /\ req'[r].kind = "chat") =>
            /\ req[r].messages # <<>> => req'[r].messages = req[r].messages
            /\ IsPrefix(req[r].toolResults, req'[r].toolResults)]_vars

\* An exchange with a supplied history has made its follow-up call after
\* two invocations.
C16_Witness ==
  \E r \in Slots :
    /\ req[r].kind = "chat"
    /\ HistoryOf(req[r].body) = <<HistoryTurn>>
    /\ Len(EventsOf(req[r], "llm")) = 2
    /\ Len(RequestedBy(FirstOf(r))) = 2
    /\ Len(EventsOf(req[r], "llm")[2].messages) = 6


(* --------------------------- result extraction -------------------------- *)

\* Most content blocks in a Tool Host result.
MaxBlocks == 2

\* Content blocks of any Tool Host; the text may be absent or empty.
Blocks ==
  [type : {"text", "image"},
   text : {Undefined, Str(""), Str("Echo: "), Str("Echo: hi")}]

\* Results of a call operation: content may be absent, null or empty.
ToolResults ==
  {[content |-> c] :
     c \in {Undefined, Null}
           \cup {Arr(q) : q \in UNION {[1..j -> Blocks] : j \in 0..MaxBlocks}}}

\* A Tool Host result is about to be flattened.
InitExtract ==
  /\ BootServer({Str("sk-test")})
  /\ calc \in {[fn |-> "extract", in |-> t, out |-> Undefined, done |-> FALSE] :
                 t \in ToolResults}

\* let resultText = ...: the extraction step of the tool loop.
Extract ==
  /\ calc.fn = "extract" /\ ~calc.done
  /\ calc' = [calc EXCEPT !.out = ExtractText(calc.in), !.done = TRUE]
  /\ UNCHANGED <<listening, alive, mcpClient, mcpTransport, clients, req, env>>

SpecExtract == InitExtract /\ [][Extract]_vars

\* C17 as stated: the flat text is the text of the first content block
\* whenever that block has a text field, the empty text included; in every
\* other case (no content, empty content, first block without text) it is
\* the serialization of the whole result.
C17_Original ==
  (calc.fn = "extract" /\ calc.done) =>
    LET content == calc.in.content IN
    IF content.t = "array" /\ Len(content.v) > 0
       /\ content.v[1].text.t = "string"
    THEN calc.out = content.v[1].text
    ELSE calc.out = Str(StringifyResult(calc.in))


\* C17, amended: the flat text is the text of the first content block when
\* that text is a non-empty string; when the first block has no text or an
\* empty text it is the serialization of that first block alone; when the
\* result has no content or an empty content it is the serialization of
\* the whole result.
C17_FlatText ==
  (calc.fn = "extract" /\ calc.done) =>
    LET content == calc.in.content IN
    IF content.t = "array" /\ Len(content.v) > 0
    THEN IF content.v[1].text.t = "string" /\ content.v[1].text.v # ""
         THEN calc.out = content.v[1].text
         ELSE calc.out = Str(StringifyBlock(content.v[1]))
    ELSE calc.out = Str(StringifyResult(calc.in))

\* A result of two blocks whose first block has an empty text has been
\* flattened to the serialization of the first block, which is neither
\* the empty text nor the serialization of the result.
C17_Witness ==
  /\ calc.fn = "extract" /\ calc.done
  /\ calc.in.content.t = "array" /\ Len(calc.in.content.v) = 2
  /\ calc.in.content.v[1].text = Str("")
  /\ calc.out = Str(StringifyBlock(calc.in.content.v[1]))
  /\ calc.out # Str("")
  /\ calc.out # Str(StringifyResult(calc.in))


(* ------------------------- failure inside the loop ---------------------- *)

\* The position of the first requested invocation whose argument text is
\* malformed (0 if there is none).
FirstBad(asked) ==
  LET bad == {i \in 1..Len(asked) : asked[i].function.arguments = Str(ArgsBad)}
  IN IF bad = {} THEN 0 ELSE CHOOSE i \in bad : \A j \in bad : i <= j

\* The trace of the handler in slot r holds a failure of a call operation.
CallFailed(rr) ==
  \E i \in 2..Len(rr.trace) :
    /\ rr.trace[i - 1].ev = "callTool"
    /\ rr.trace[i].ev \in {"toolError", "channelError"}

\* The failures that can end the tool loop.
LoopFailures == {"parseError", "toolError", "channelError"}

\* C18: when the argument text of the k-th requested invocation is
\* malformed, or the k-th call operation fails, the exchange fails there:
\* invocations 1..k-1 have been executed and answered, invocation k (for a
\* malformed text) and all later ones are never sent to the Tool Host, no
\* follow-up LLM call is made, the caller gets status 500, and the step
\* that fails leaves the service running and its channel as it was.
C18_FailsAtK ==
  /\ [](\A r \in Slots : HasFirst(r) =>
          LET asked == RequestedBy(FirstOf(r))
              k == FirstBad(asked)
              calls == EventsOf(req[r], "callTool")
              results == OwnResults(r)
              llm == EventsOf(req[r], "llm")
          IN /\ k > 0 =>
                  /\ Len(calls) <= k - 1
                  /\ Len(llm) = 1
                  /\ req[r].pc = "done" =>
                       /\ SentBy(req[r]).status = 500
                       /\ ~CallFailed(req[r]) =>
                            /\ Len(EventsOf(req[r], "parseError")) = 1
                            /\ Len(calls) = k - 1
                            /\ Len(results) = k - 1
             /\ CallFailed(req[r]) =>
                  /\ Len(results) = Len(calls) - 1
                  /\ Len(llm) = 1
                  /\ req[r].pc = "done"
                  /\ SentBy(req[r]).status = 500
             /\ \A i \in 1..Len(calls) :
                  calls[i].name = asked[i].function.name)
  /\ [][\A r \in Slots :
          (/\ req'[r].kind = "chat"
           /\ \E e \in LoopFailures :
                Len(EventsOf(req'[r], e)) > Len(EventsOf(req[r], e)))
          => /\ alive' /\ listening'
             /\ mcpClient' = mcpClient /\ clients' = clients
             /\ \A q \in Slots \ {r} : req'[q] = req[q]]_vars

\* An exchange whose second requested invocation has a malformed argument
\* text has executed the first invocation and then failed with status 500.
C18_Witness ==
  \E r \in Slots :
    /\ HasFirst(r) /\ req[r].pc = "done"
    /\ Len(RequestedBy(FirstOf(r))) = 2
    /\ FirstBad(RequestedBy(FirstOf(r))) = 2
    /\ Len(OwnResults(r)) = 1
    /\ Len(EventsOf(req[r], "parseError")) = 1
    /\ SentBy(req[r]).status = 500
    /\ alive /\ listening


(* ------------------------------ termination ----------------------------- *)

\* The chat exchanges followed to their end.
RequestsLive ==
  {[kind |-> "chat",
    body |-> [message |-> Str("Please echo 'hi'"), history |-> h]] :
     h \in {Undefined, Null, Arr(<<HistoryTurn>>)}}

\* First responses: a text, two invocations, and an invocation followed by
\* one with a malformed argument text.
FirstMessagesLive ==
  {[role |-> "assistant", content |-> Str("ok"), tool_calls |-> Undefined],
   [role |-> "assistant", content |-> Null,
    tool_calls |-> MkToolCalls(<<EchoHiCall, EchoHiCall>>)],
   [role |-> "assistant", content |-> Null,
    tool_calls |-> MkToolCalls(<<EchoHiCall,
                     [name |-> EchoName, arguments |-> Str(ArgsBad)]>>)]}

\* Follow-up responses: a text, or a request for another invocation.
SecondMessagesLive ==
  {[role |-> "assistant", content |-> Str("The message was echoed: hi"),
    tool_calls |-> Undefined],
   [role |-> "assistant", content |-> Null,
    tool_calls |-> MkToolCalls(<<EchoHiCall>>)]}

\* An operation the handler in slot r awaits returns or fails.
Returns(r) ==
  \/ ListReply(r)
  \/ CallReply(r)
  \/ ChannelFail(r)
  \/ LLMReply1(r, FirstMessagesLive)
  \/ LLMReply2(r, SecondMessagesLive)
  \/ LLMFail(r)

NextLive ==
  \/ ListenCallback
  \/ \E c \in 1..Len(clients) : ConnectOk(c)
  \/ \E c \in 1..Len(clients) : ConnectFail(c)
  \/ \E r \in Slots : Arrive(r, RequestsLive, TRUE)
  \/ \E r \in Slots : ListReply(r)
  \/ \E r \in Slots : CallReply(r)
  \/ \E r \in Slots : ChannelFail(r)
  \/ \E r \in Slots : LLMReply1(r, FirstMessagesLive)
  \/ \E r \in Slots : LLMReply2(r, SecondMessagesLive)
  \/ \E r \in Slots : LLMFail(r)
  \/ \E r \in Slots : Release(r)

\* The bridge serving one chat exchange at a time, when every awaited LLM
\* call and Tool Host operation eventually returns or fails.
SpecLive == Init /\ [][NextLive]_vars /\ \A r \in Slots : WF_vars(Returns(r))

\* The phases of a chat exchange in the order it passes through them.
PhaseRank(pc) ==
  CASE pc = "idle" -> 0
    [] pc = "init" -> 1
    [] pc = "list" -> 2
    [] pc = "llm1" -> 3
    [] pc = "tool" -> 4
    [] pc = "llm2" -> 5
    [] pc = "done" -> 6

\* C20: while the process runs, every chat exchange reaches Done; it goes
\* from awaiting the initial response to the tool calls and awaiting the
\* follow-up only if tools were requested, makes no more tool calls than
\* were requested, never returns to an earlier phase, has sent exactly one
\* response when Done and none before, and sends nothing after it.
C20_Terminates ==
  /\ \A r \in Slots :
       (req[r].kind = "chat" /\ req[r].pc # "done")
         ~> ((req[r].kind = "chat" /\ req[r].pc = "done") \/ ~alive)
  /\ [](\A r \in Slots : req[r].kind = "chat" =>
          /\ Len(EventsOf(req[r], "send")) = (IF req[r].pc = "done" THEN 1 ELSE 0)
          /\ req[r].pc \in {"tool", "llm2"} =>
               HasFirst(r) /\ Len(RequestedBy(FirstOf(r))) >= 1
          /\ HasFirst(r) =>
               Len(EventsOf(req[r], "callTool")) <= Len(RequestedBy(FirstOf(r)))
          /\ Len(EventsOf(req[r], "llm")) <= 2)
  /\ [][\A r \in Slots :
          /\ (req[r].kind = "chat" /\ req'[r].kind = "chat") =>
               PhaseRank(req'[r].pc) >= PhaseRank(req[r].pc)
          /\ (req[r].kind = "chat" /\ req[r].pc = "done" /\ req'[r] # req[r]) =>
               req'[r] = Idle]_vars

\* An exchange has passed through the tool calls and the follow-up call and
\* is Done with its one response.
C20_Witness ==
  \E r \in Slots :
    /\ req[r].kind = "chat" /\ req[r].pc = "done"
    /\ Len(EventsOf(req[r], "callTool")) = 2
    /\ Len(EventsOf(req[r], "llm")) = 2
    /\ Len(EventsOf(req[r], "send")) = 1

====
